---- MODULE Spec2Model ----
(***************************************************************************)
(* Model of nl2audio's text-to-speech core (src/nl2audio/tts.py) and of    *)
(* the two CLI commands that drive it (src/nl2audio/cli.py).               *)
(*                                                                         *)
(* Strings are sequences of one-character strings.  Python indexes from 0, *)
(* TLA+ sequences from 1: At(s, i) reads the character at Python index i,  *)
(* and break points / lengths keep their Python values.                    *)
(***************************************************************************)
EXTENDS Integers, Sequences, FiniteSets, TLC

VARIABLES
    \* ---- chunk_text call ----
    text,        \* the text argument
    max_chars,   \* the max_chars argument
    strategy,    \* the strategy argument
    pc,          \* "call" before the chunk_text or _clean_text call, "done"
                 \* after it returned
    chunks,      \* the returned list of chunks
    \* ---- estimate_tts / _clean_text call ----
    model,       \* the model argument of estimate_tts
    est,         \* the report estimate_tts returned
    cleaned,     \* the string _clean_text returned
    \* ---- the loop that splits an over-long paragraph or sentence ----
    remaining,   \* the text still to be split (the loop's para / remaining)
    pieces,      \* the chunks the loop has appended
    found_break, \* the last value _find_safe_break_point returned
    \* ---- the doctor command ----
    results,     \* the statuses of the CheckResults validate_runtime returned
    d_pc,        \* position inside doctor
    d_raised,    \* the exception raised inside the try block of doctor
    doctor_exit, \* exit code of the doctor command, -1 while running
    \* ---- llm_clean_for_tts call ----
    p_pc,        \* position inside llm_clean_for_tts
    p_env,       \* which of the call's steps succeed
    p_exc,       \* the exception raised inside its try block
    p_ret,       \* what llm_clean_for_tts returned
    \* ---- the episode store ----
    rows,        \* the rows of the episodes table, in insertion order
    files,       \* content of the file at each mp3 path
    last_add,    \* the last add_episode call: its hash, and whether it inserted
    \* ---- repeated estimate_tts / chunk_text calls ----
    pricing,     \* the module-level TTS_PRICING dict
    history,     \* the estimate_tts calls made so far: arguments and report
    \* ---- CLI command and synthesize run ----
    cmd,         \* "add" | "fetch_email"
    cfg,         \* [voice, bitrate, max_minutes] of AppConfig
    api_key,     \* OPENAI_API_KEY: "missing" | "malformed" | "valid"
    dry_run,     \* synthesize's dry_run argument
    msgs_left,   \* fetch_email: messages not yet processed
    nchunks,     \* len(chunks) inside synthesize
    idx,         \* the loop variable i of synthesize (0-based)
    result,      \* what synthesize returned: [kind, report, data]
    s_pc,        \* position inside the command / synthesize
    calls,       \* chunk numbers (1-based) passed to client.audio.speech.create
    combined,    \* the accumulated AudioSegment: sequence of segments
    total_ms,    \* running duration counter
    error,       \* the exception that left synthesize (NoError if none)
    exported,    \* number of combined.export() executions in this run
    out_audio,   \* what export() wrote to out_path in this run
    handler,     \* the except clause of the caller that ran
    exit_code    \* typer.Exit code of the command, -1 while running

chunkVars == <<text, max_chars, strategy, pc, chunks, model, est, cleaned>>
synthVars == <<cmd, cfg, api_key, dry_run, msgs_left, nchunks, idx, result, s_pc, calls,
               combined, total_ms, error, exported, out_audio, handler,
               exit_code>>
splitVars == <<remaining, pieces, found_break>>
doctorVars == <<results, d_pc, d_raised, doctor_exit>>
prepVars == <<p_pc, p_env, p_exc, p_ret>>
storeVars == <<rows, files, last_add>>
repeatVars == <<pricing, history>>
extVars == <<doctorVars, prepVars, storeVars, repeatVars>>
otherVars == <<splitVars, extVars>>
vars == <<text, max_chars, strategy, pc, chunks, model, est, cleaned,
          remaining, pieces, found_break, results, d_pc, d_raised,
          doctor_exit, p_pc, p_env, p_exc, p_ret, rows, files, last_add, pricing,
          history,
          cmd, cfg, api_key, dry_run,
          msgs_left, nchunks, idx, result, s_pc, calls, combined, total_ms, error,
          exported, out_audio, handler, exit_code>>

----------------------------------------------------------------------------
(* Bounds *)

MaxLen == 5
MaxChars == 3
MaxChunks == 3
MaxMinutes == 2
MaxMsgs == 2
MaxDryLen == 3
MaxParas == 3
MaxParaChars == 4
MaxEstLen == 4
MaxBlankLen == 4
MaxCleanLen == 4
MaxWords == 9
MaxWordLen == 150

----------------------------------------------------------------------------
(* Characters and Python string primitives *)

NL == "\n"
SP == " "

UpperChars == {"A", "B", "C", "D", "E", "F", "G", "H", "I", "J", "K", "L", "M",
               "N", "O", "P", "Q", "R", "S", "T", "U", "V", "W", "X", "Y", "Z"}

WhitespaceChars == {SP, NL, "\t"}

IsSpace(c) == c \in WhitespaceChars

IsUpper(c) == c \in UpperChars

Min(a, b) == IF a <= b THEN a ELSE b

SetMax(S) == CHOOSE m \in S : \A x \in S : x <= m

SetMin(S) == CHOOSE m \in S : \A x \in S : m <= x

At(s, i) == s[i + 1]

\* s[:n]
Take(s, n) == SubSeq(s, 1, Min(n, Len(s)))

\* s[n:]
Drop(s, n) == SubSeq(s, n + 1, Len(s))

\* str.strip()
StripStr(s) ==
    LET keep == {k \in 1..Len(s) : ~IsSpace(s[k])}
    IN  IF keep = {} THEN <<>> ELSE SubSeq(s, SetMin(keep), SetMax(keep))

\* str.split(): the maximal runs of non-whitespace characters, in order
RECURSIVE SplitWords(_)
SplitWords(s) ==
    LET t == StripStr(s)
    IN  IF t = <<>> THEN <<>>
        ELSE LET ws == {k \in 1..Len(t) : IsSpace(t[k])}
                 e  == IF ws = {} THEN Len(t) ELSE SetMin(ws) - 1
             IN  <<SubSeq(t, 1, e)>> \o SplitWords(Drop(t, e))

\* str.split("\n"): the pieces between newlines, empty pieces included
RECURSIVE SplitLines(_)
SplitLines(s) ==
    LET nl == {k \in 1..Len(s) : s[k] = NL}
    IN  IF nl = {} THEN <<s>>
        ELSE <<SubSeq(s, 1, SetMin(nl) - 1)>> \o SplitLines(Drop(s, SetMin(nl)))

\* " ".join(list)
RECURSIVE JoinSpace(_)
JoinSpace(list) ==
    IF list = <<>> THEN <<>>
    ELSE IF Len(list) = 1 THEN list[1]
    ELSE list[1] \o <<SP>> \o JoinSpace(Tail(list))

----------------------------------------------------------------------------
(* _clean_text *)

\* re.sub(r"\n\s*\n", "\n\n", text): a match starts at a newline and, being
\* greedy, runs to the last newline of the whitespace run that follows it.
RECURSIVE SubBlankLines(_)
SubBlankLines(s) ==
    IF s = <<>> THEN <<>>
    ELSE IF s[1] # NL THEN <<s[1]>> \o SubBlankLines(Tail(s))
    ELSE LET nonws == {k \in 2..Len(s) : ~IsSpace(s[k])}
             runEnd == IF nonws = {} THEN Len(s) ELSE SetMin(nonws) - 1
             nls == {k \in 2..runEnd : s[k] = NL}
         IN  IF nls = {} THEN <<NL>> \o SubBlankLines(Tail(s))
             ELSE <<NL, NL>> \o SubBlankLines(Drop(s, SetMax(nls)))

\* re.sub(r" +", " ", text)
RECURSIVE SubSpaces(_)
SubSpaces(s) ==
    IF s = <<>> THEN <<>>
    ELSE IF s[1] = SP /\ Len(s) >= 2 /\ s[2] = SP THEN SubSpaces(Tail(s))
    ELSE <<s[1]>> \o SubSpaces(Tail(s))

CleanText(s) == StripStr(SubSpaces(SubBlankLines(s)))

----------------------------------------------------------------------------
(* _find_safe_break_point *)

IsSentenceEnd(c) == c \in {".", "!", "?"}

\* the guard without its test of the following character
AbbrevGuardNoSpace(s, i) ==
    /\ i > 0
    /\ IsUpper(At(s, i - 1))

\* the abbreviation guard of the sentence-ending loop
AbbrevGuard(s, i) ==
    /\ i > 0
    /\ IsUpper(At(s, i - 1))
    /\ i < Len(s) - 1
    /\ IsSpace(At(s, i + 1))

\* the loops run down to index 0 and break before the character found
FindSafeBreakPointFromZero(s, mc) ==
    IF Len(s) <= mc THEN Len(s)
    ELSE LET R == 0..Min(mc, Len(s) - 1)
             ends   == {i \in R : IsSentenceEnd(At(s, i)) /\ ~AbbrevGuard(s, i)}
             nls    == {i \in R : At(s, i) = NL}
             pauses == {i \in R : At(s, i) \in {",", ";"}}
             spaces == {i \in R : IsSpace(At(s, i))}
         IN  IF ends # {} THEN SetMax(ends)
             ELSE IF nls # {} THEN SetMax(nls)
             ELSE IF pauses # {} THEN SetMax(pauses)
             ELSE IF spaces # {} THEN SetMax(spaces)
             ELSE mc

\* Each loop runs i from min(max_chars, len-1) down to start_pos+1 and returns
\* at its first hit, i.e. at the largest index of its kind in that range.
FindSafeBreakPoint(s, mc) ==
    IF Len(s) <= mc THEN Len(s)
    ELSE LET R == 1..Min(mc, Len(s) - 1)
             ends   == {i \in R : IsSentenceEnd(At(s, i)) /\ ~AbbrevGuard(s, i)}
             nls    == {i \in R : At(s, i) = NL}
             pauses == {i \in R : At(s, i) \in {",", ";"}}
             spaces == {i \in R : IsSpace(At(s, i))}
         IN  IF ends # {} THEN SetMax(ends) + 1
             ELSE IF nls # {} THEN SetMax(nls) + 1
             ELSE IF pauses # {} THEN SetMax(pauses) + 1
             ELSE IF spaces # {} THEN SetMax(spaces) + 1
             ELSE mc

----------------------------------------------------------------------------
(* _split_into_paragraphs *)

RECURSIVE ParagraphLoop(_, _, _)
ParagraphLoop(lines, paragraphs, current_para) ==
    IF lines = <<>>
    THEN IF current_para # <<>>
         THEN Append(paragraphs, StripStr(current_para))
         ELSE paragraphs
    ELSE LET line == StripStr(lines[1])
         IN  IF line # <<>>
             THEN ParagraphLoop(Tail(lines), paragraphs,
                                current_para \o line \o <<SP>>)
             ELSE IF current_para # <<>>
             THEN ParagraphLoop(Tail(lines),
                                Append(paragraphs, StripStr(current_para)), <<>>)
             ELSE ParagraphLoop(Tail(lines), paragraphs, current_para)

\* every line taken as a paragraph, blank or not
SplitIntoLines(s) == SplitLines(s)

SplitIntoParagraphs(s) == ParagraphLoop(SplitLines(s), <<>>, <<>>)

----------------------------------------------------------------------------
(* The while loop that splits an over-long paragraph or sentence *)

\* the rest taken from one character after the break point
RemainingSkipOne(para, break_point) == StripStr(Drop(para, break_point + 1))

\* "remaining = remaining[break_point:].strip()"
Remaining(para, break_point) == StripStr(Drop(para, break_point))

RECURSIVE SplitLong(_, _)
SplitLong(para, mc) ==
    IF para = <<>> THEN <<>>
    ELSE LET break_point == FindSafeBreakPoint(para, mc)
             chunk_part  == Take(para, break_point)
         IN  <<StripStr(chunk_part)>>
                 \o SplitLong(Remaining(para, break_point), mc)

----------------------------------------------------------------------------
(* _chunk_smart and _chunk_by_sentences share the loop body:              *)
(* flush when the item does not fit, split when the item is too long,     *)
(* otherwise append it to the chunk being built                           *)

\* the item taken not to fit already when it fills the chunk exactly
DoesNotFitInclusive(current_chunk, item, mc) ==
    Len(current_chunk) + Len(item) + 1 >= mc

\* "len(current_chunk) + len(paragraph) + 1 > max_chars"
DoesNotFit(current_chunk, item, mc) ==
    Len(current_chunk) + Len(item) + 1 > mc

RECURSIVE PackLoop(_, _, _, _)
PackLoop(items, mc, acc, current_chunk) ==
    IF items = <<>> THEN [chunks |-> acc, current_chunk |-> current_chunk]
    ELSE LET item == items[1]
             flush == DoesNotFit(current_chunk, item, mc)
                          /\ current_chunk # <<>>
             acc1 == IF flush THEN Append(acc, StripStr(current_chunk)) ELSE acc
             cur1 == IF flush THEN <<>> ELSE current_chunk
         IN  IF Len(item) > mc
             THEN LET acc2 == IF cur1 # <<>> THEN Append(acc1, StripStr(cur1))
                                             ELSE acc1
                  IN  PackLoop(Tail(items), mc, acc2 \o SplitLong(item, mc), <<>>)
             ELSE PackLoop(Tail(items), mc, acc1,
                           IF cur1 # <<>> THEN cur1 \o <<SP>> \o item ELSE item)

\* the final append without its "if current_chunk.strip()" test
AddRemainingUnguarded(r) == Append(r.chunks, StripStr(r.current_chunk))

\* "Add remaining chunk"
AddRemaining(r) ==
    IF StripStr(r.current_chunk) # <<>>
    THEN Append(r.chunks, StripStr(r.current_chunk))
    ELSE r.chunks

ChunkSmart(s, mc) == AddRemaining(PackLoop(SplitIntoParagraphs(s), mc, <<>>, <<>>))

----------------------------------------------------------------------------
(* _chunk_by_paragraphs *)

RECURSIVE ParaChunkLoop(_, _)
ParaChunkLoop(paragraphs, mc) ==
    IF paragraphs = <<>> THEN <<>>
    ELSE LET para == paragraphs[1]
         IN  (IF Len(para) <= mc THEN <<para>> ELSE SplitLong(para, mc))
                 \o ParaChunkLoop(Tail(paragraphs), mc)

ChunkByParagraphs(s, mc) == ParaChunkLoop(SplitIntoParagraphs(s), mc)

----------------------------------------------------------------------------
(* _chunk_by_sentences *)

\* re.split(r"(?<=[.!?])\s+", text): a separator is a maximal whitespace run
\* that directly follows a sentence terminator
RECURSIVE SplitSentences(_)
SplitSentences(s) ==
    LET seps == {k \in 2..Len(s) : IsSpace(s[k]) /\ IsSentenceEnd(s[k - 1])}
    IN  IF seps = {} THEN <<s>>
        ELSE LET b == SetMin(seps)
                 nonws == {k \in b..Len(s) : ~IsSpace(s[k])}
                 e == IF nonws = {} THEN Len(s) ELSE SetMin(nonws) - 1
             IN  <<SubSeq(s, 1, b - 1)>> \o SplitSentences(Drop(s, e))

\* "sentence = sentence.strip(); if not sentence: continue"
RECURSIVE StripNonEmpty(_)
StripNonEmpty(list) ==
    IF list = <<>> THEN <<>>
    ELSE (IF StripStr(list[1]) = <<>> THEN <<>> ELSE <<StripStr(list[1])>>)
             \o StripNonEmpty(Tail(list))

ChunkBySentences(s, mc) ==
    AddRemaining(PackLoop(StripNonEmpty(SplitSentences(s)), mc, <<>>, <<>>))

----------------------------------------------------------------------------
(* chunk_text *)

Strategies == {"smart", "paragraph", "sentence"}

ChunkText(s, mc, st) ==
    LET t == CleanText(s)
    IN  IF st = "paragraph" THEN ChunkByParagraphs(t, mc)
        ELSE IF st = "sentence" THEN ChunkBySentences(t, mc)
        ELSE ChunkSmart(t, mc)

----------------------------------------------------------------------------
(* estimate_tts                                                            *)
(* The floats of the report are kept as scaled integers: avg_chunk_size    *)
(* and estimated_minutes in tenths (round(x, 1)), estimated_cost_usd in    *)
(* units of 0.0001 USD (round(x, 4)), prices in units of 0.00001 USD per   *)
(* 1000 characters.                                                        *)

DefaultModel == "gpt-4o-mini-tts"

\* TTS_PRICING = {"gpt-4o-mini-tts": 0.00015}
TTS_PRICING == [m \in {DefaultModel} |-> 15]

\* TTS_PRICING.get(model, TTS_PRICING["gpt-4o-mini-tts"])
PriceIn(table, m) ==
    IF m \in DOMAIN table THEN table[m] ELSE table[DefaultModel]

PriceFor(m) == PriceIn(TTS_PRICING, m)

\* the max_chars default of chunk_text, and max_chars_per_chunk of estimate_tts
DefaultMaxChars == 3500

\* "rough approximation: 150 words per minute"
WordsPerMinute == 150

\* the length of the preview, and the mark appended to a cut preview
PreviewLen == 200
Ellipsis == <<".", ".", ".">>

\* round() of the quotient num/den of two non-negative integers to an
\* integer, ties to even: what Python's round(x, 1) gives for x = num/(10*den)
\* whenever a tie is exactly representable (always, for fewer than 20 chunks)
RoundHalfEven(num, den) ==
    LET q == num \div den
        r == num % den
    IN  IF 2 * r > den \/ (2 * r = den /\ q % 2 = 1) THEN q + 1 ELSE q

\* round() of num/den where the float product lies just below each decimal
\* tie: 0.00015 is stored as a double below 0.00015, so (n/1000)*0.00015 at a
\* tie of the fourth decimal is rounded down (every n < 105000)
RoundTiesDown(num, den) ==
    LET q == num \div den
        r == num % den
    IN  IF 2 * r > den THEN q + 1 ELSE q

\* len(s.split()): the number of maximal runs of non-whitespace characters
WordCount(s) ==
    Cardinality({k \in 1..Len(s) :
                    ~IsSpace(s[k]) /\ (k = 1 \/ IsSpace(s[k - 1]))})

\* the cost with the division by 1000 left out
EstimatedCostPerChar(total_chars, price_per_1k) ==
    RoundTiesDown(total_chars * price_per_1k, 10)

\* "estimated_cost = (total_chars / 1000) * price_per_1k", rounded to 4 places
EstimatedCost(total_chars, price_per_1k) ==
    RoundTiesDown(total_chars * price_per_1k, 10000)

\* "avg_chunk_size = total_chars / num_chunks if num_chunks > 0 else 0",
\* rounded to 1 place
AvgChunkSize(total_chars, num_chunks) ==
    IF num_chunks > 0 THEN RoundHalfEven(10 * total_chars, num_chunks) ELSE 0

\* the minutes with the decimals after the first cut off
EstimatedMinutesTruncated(words) == (10 * words) \div WordsPerMinute

\* "estimated_minutes = words / 150", rounded to 1 place
EstimatedMinutes(words) == RoundHalfEven(10 * words, WordsPerMinute)

\* "Calculate statistics" to the end of estimate_tts: the report for a
\* cleaned text and its chunks
Estimation(cleaned_text, chs, voice, m, limit) ==
    LET total_chars == Len(cleaned_text)
        num_chunks  == Len(chs)
        words       == WordCount(cleaned_text)
    IN  [total_characters    |-> total_chars,
         total_words         |-> words,
         num_chunks          |-> num_chunks,
         avg_chunk_size      |-> AvgChunkSize(total_chars, num_chunks),
         estimated_minutes   |-> EstimatedMinutes(words),
         estimated_cost_usd  |-> EstimatedCost(total_chars, PriceFor(m)),
         model               |-> m,
         voice               |-> voice,
         chunks_over_limit   |->
             Cardinality({k \in 1..num_chunks : Len(chs[k]) > limit}),
         max_chars_per_chunk |-> limit,
         text_preview        |->
             IF total_chars > PreviewLen
             THEN Take(cleaned_text, PreviewLen) \o Ellipsis
             ELSE cleaned_text]

\* estimate_tts(text, voice, model); limit stands for the 3500 of
\* chunk_text's default max_chars and of max_chars_per_chunk
EstimateTts(t, voice, m, limit) ==
    LET cleaned_text == CleanText(t)
    IN  Estimation(cleaned_text, ChunkText(cleaned_text, limit, "smart"),
                   voice, m, limit)

\* a non-empty single line that _clean_text leaves as it is: no newline, no
\* two spaces in a row, no whitespace at either end
IsNormalizedLine(t) ==
    /\ t # <<>>
    /\ ~IsSpace(t[1])
    /\ ~IsSpace(t[Len(t)])
    /\ {k \in 1..Len(t) : t[k] = NL} = {}
    /\ {k \in 1..(Len(t) - 1) : t[k] = SP /\ t[k + 1] = SP} = {}

\* estimate_tts on a normalized line no longer than the limit: _clean_text
\* returns it unchanged and chunk_text returns it as the only chunk
EstimateTtsLine(t, voice, m, limit) == Estimation(t, <<t>>, voice, m, limit)

\* the report variable before estimate_tts has returned
NoReport == Estimation(<<>>, <<>>, "none", "none", 0)

----------------------------------------------------------------------------
(* Inputs of chunk_text *)

Alphabet == {"a", "A", ".", ",", "\t", SP, NL}

Texts == UNION {[1..n -> Alphabet] : n \in 0..MaxLen}

NoError == [class |-> "none", chunk |-> 0, cause |-> "none"]

\* nothing was written to out_path
NoFile == [written |-> FALSE, normalized |-> FALSE, segs |-> <<>>]

\* synthesize has not returned
NoResult == [kind |-> "none", report |-> NoReport, data |-> NoFile]

\* the dry-run return with the voice argument not passed on
DryRunReturnDefaultVoice(t, voice, limit) ==
    [kind |-> "estimation", report |-> EstimateTts(t, "alloy", DefaultModel, limit),
     data |-> NoFile]

\* "if dry_run: estimation = estimate_tts(text, voice); return estimation"
DryRunReturn(t, voice, limit) ==
    [kind |-> "estimation", report |-> EstimateTts(t, voice, DefaultModel, limit),
     data |-> NoFile]

\* "return out_path.read_bytes()"
ReadBytes(file) == [kind |-> "bytes", report |-> NoReport, data |-> file]

\* no estimate_tts or _clean_text call is being observed
EstIdle ==
    /\ model = DefaultModel
    /\ est = NoReport
    /\ cleaned = <<>>

\* no command is running
SynthIdle ==
    /\ cmd = "none"
    /\ cfg = [voice |-> "alloy", bitrate |-> "64k", max_minutes |-> 60]
    /\ api_key = "valid"
    /\ dry_run = FALSE
    /\ msgs_left = 0
    /\ nchunks = 0
    /\ idx = 0
    /\ result = NoResult
    /\ s_pc = "idle"
    /\ calls = <<>>
    /\ combined = <<>>
    /\ total_ms = 0
    /\ error = NoError
    /\ exported = 0
    /\ out_audio = NoFile
    /\ handler = "none"
    /\ exit_code = -1

\* no split loop and no _find_safe_break_point call is being observed
SplitIdle ==
    /\ remaining = <<>>
    /\ pieces = <<>>
    /\ found_break = 0

\* no exception is travelling out of doctor's try block
NoRaise == [class |-> "none", code |-> -1]

\* doctor is not running
DoctorIdle ==
    /\ results = <<>>
    /\ d_pc = "idle"
    /\ d_raised = NoRaise
    /\ doctor_exit = -1

\* what an llm_clean_for_tts call meets: the OPENAI_API_KEY variable,
\* whether OpenAI(...) and chat.completions.create succeed, and the response
NoEnv == [key |-> "valid", client_ok |-> TRUE, request_ok |-> TRUE,
          response |-> [choices |-> 0, content |-> <<>>, usage |-> FALSE]]

\* no llm_clean_for_tts call is being observed
PrepIdle ==
    /\ p_pc = "idle"
    /\ p_env = NoEnv
    /\ p_exc = "none"
    /\ p_ret = <<>>

\* episode titles: two that differ only by space / underscore, and another
Titles == {<<"A", " ", "B">>, <<"A", "_", "B">>, <<"C">>}

MaxAudio == 3

\* the byte strings synthesize can return, NoAudio for a missing file
Audio == 1..MaxAudio
NoAudio == 0

RECURSIVE Replace(_, _, _)
\* str.replace(old, new) for one-character old and new
Replace(s, old, new) ==
    IF s = <<>> THEN <<>>
    ELSE <<IF s[1] = old THEN new ELSE s[1]>> \o Replace(Tail(s), old, new)

\* cfg.output_dir / "episodes" / f"{ep_title.replace(' ', '_')}.mp3"
Mp3Path(ep_title) == <<"episodes/">> \o Replace(ep_title, " ", "_") \o <<".mp3">>

Paths == {Mp3Path(t) : t \in Titles}

\* hashlib.sha256(content_bytes).hexdigest(): distinct byte strings have
\* distinct digests
Sha256(content_bytes) == <<"sha256", content_bytes>>

NoCall == [hash |-> <<>>, inserted |-> FALSE]

\* a fresh output directory: empty episodes table, no audio file
StoreIdle ==
    /\ rows = <<>>
    /\ files = [p \in Paths |-> NoAudio]
    /\ last_add = NoCall

\* tts.py as imported, no call made yet
RepeatIdle ==
    /\ pricing = TTS_PRICING
    /\ history = <<>>

ExtIdle == DoctorIdle /\ PrepIdle /\ StoreIdle /\ RepeatIdle

OtherIdle == SplitIdle /\ ExtIdle

InitChunk ==
    /\ text \in Texts
    /\ max_chars \in 1..MaxChars
    /\ strategy \in Strategies
    /\ pc = "call"
    /\ chunks = <<>>
    /\ EstIdle
    /\ SynthIdle
    /\ OtherIdle

\* chunk_text(text, max_chars, "smart")
CallChunkSmart ==
    /\ pc = "call"
    /\ strategy = "smart"
    /\ chunks' = ChunkText(text, max_chars, strategy)
    /\ pc' = "done"
    /\ UNCHANGED <<text, max_chars, strategy, model, est, cleaned>>
    /\ UNCHANGED synthVars
    /\ UNCHANGED otherVars

\* chunk_text(text, max_chars, "paragraph")
CallChunkByParagraphs ==
    /\ pc = "call"
    /\ strategy = "paragraph"
    /\ chunks' = ChunkText(text, max_chars, strategy)
    /\ pc' = "done"
    /\ UNCHANGED <<text, max_chars, strategy, model, est, cleaned>>
    /\ UNCHANGED synthVars
    /\ UNCHANGED otherVars

\* chunk_text(text, max_chars, "sentence")
CallChunkBySentences ==
    /\ pc = "call"
    /\ strategy = "sentence"
    /\ chunks' = ChunkText(text, max_chars, strategy)
    /\ pc' = "done"
    /\ UNCHANGED <<text, max_chars, strategy, model, est, cleaned>>
    /\ UNCHANGED synthVars
    /\ UNCHANGED otherVars

NextChunk == CallChunkSmart \/ CallChunkByParagraphs \/ CallChunkBySentences

SpecChunk == InitChunk /\ [][NextChunk]_vars

----------------------------------------------------------------------------
(* Texts made of paragraphs, chunked with the smart strategy *)

\* blocks of non-blank lines: one line, two lines, and one longer than every
\* max_chars tried
ParaBlocks == {<<"a">>, <<"a", "a">>, <<"a", NL, "a">>,
               <<"a", ".", SP, "a", "a", "a">>}

RECURSIVE JoinBlankLine(_)
\* the blocks separated by one blank line each
JoinBlankLine(blocks) ==
    IF blocks = <<>> THEN <<>>
    ELSE IF Len(blocks) = 1 THEN blocks[1]
    ELSE blocks[1] \o <<NL, NL>> \o JoinBlankLine(Tail(blocks))

ParaTexts ==
    {JoinBlankLine(bs) : bs \in UNION {[1..n -> ParaBlocks] : n \in 1..MaxParas}}

InitPara ==
    /\ text \in ParaTexts
    /\ max_chars \in 1..MaxParaChars
    /\ strategy = "smart"
    /\ pc = "call"
    /\ chunks = <<>>
    /\ EstIdle
    /\ SynthIdle
    /\ OtherIdle

SpecPara == InitPara /\ [][CallChunkSmart]_vars

----------------------------------------------------------------------------
(* estimate_tts calls *)

\* every short text over the alphabet
EstTexts == UNION {[1..n -> Alphabet] : n \in 0..MaxEstLen}

\* the line of w words of len letters each, separated by single spaces
WordsLine(w, len) == [k \in 1..(w * len + w - 1) |->
                         IF k % (len + 1) = 0 THEN SP ELSE "a"]

LineTexts == {WordsLine(w, len) : w \in 1..MaxWords, len \in 1..MaxWordLen}

\* the default model and one that is not in the pricing table
Models == {DefaultModel, "invalid-model"}

\* the chunk limit of estimate_tts: its value in the program, and small values
\* that the short texts reach
EstLimits == (1..MaxChars) \cup {DefaultMaxChars}

InitEstimate ==
    /\ text \in EstTexts \cup LineTexts
    /\ max_chars \in EstLimits
    /\ strategy = "smart"
    /\ pc = "call"
    /\ chunks = <<>>
    /\ model \in Models
    /\ est = NoReport
    /\ cleaned = <<>>
    /\ SynthIdle
    /\ OtherIdle

\* estimate_tts(text, model=model) on a short text
CallEstimateTts ==
    /\ est = NoReport
    /\ Len(text) <= MaxEstLen
    /\ est' = EstimateTts(text, cfg.voice, model, max_chars)
    /\ UNCHANGED <<text, max_chars, strategy, pc, chunks, model, cleaned>>
    /\ UNCHANGED synthVars
    /\ UNCHANGED otherVars

\* estimate_tts(text, model=model) on a normalized line within the limit
CallEstimateTtsLine ==
    /\ est = NoReport
    /\ IsNormalizedLine(text)
    /\ Len(text) <= max_chars
    /\ est' = EstimateTtsLine(text, cfg.voice, model, max_chars)
    /\ UNCHANGED <<text, max_chars, strategy, pc, chunks, model, cleaned>>
    /\ UNCHANGED synthVars
    /\ UNCHANGED otherVars

NextEstimate == CallEstimateTts \/ CallEstimateTtsLine

SpecEstimate == InitEstimate /\ [][NextEstimate]_vars

----------------------------------------------------------------------------
(* chunk_text and estimate_tts on empty and whitespace-only texts *)

BlankTexts == UNION {[1..n -> WhitespaceChars] : n \in 0..MaxBlankLen}

InitBlank ==
    /\ text \in BlankTexts
    /\ max_chars \in EstLimits
    /\ strategy \in Strategies
    /\ pc = "call"
    /\ chunks = <<>>
    /\ model \in Models
    /\ est = NoReport
    /\ cleaned = <<>>
    /\ SynthIdle
    /\ OtherIdle

NextBlank ==
    \/ CallChunkSmart
    \/ CallChunkByParagraphs
    \/ CallChunkBySentences
    \/ CallEstimateTts

SpecBlank == InitBlank /\ [][NextBlank]_vars

----------------------------------------------------------------------------
(* _clean_text calls *)

CleanTexts == UNION {[1..n -> Alphabet] : n \in 0..MaxCleanLen}

InitClean ==
    /\ text \in CleanTexts
    /\ max_chars = DefaultMaxChars
    /\ strategy = "smart"
    /\ pc = "call"
    /\ chunks = <<>>
    /\ EstIdle
    /\ SynthIdle
    /\ OtherIdle

\* _clean_text(text)
CallCleanText ==
    /\ pc = "call"
    /\ cleaned' = CleanText(text)
    /\ pc' = "done"
    /\ UNCHANGED <<text, max_chars, strategy, chunks, model, est>>
    /\ UNCHANGED synthVars
    /\ UNCHANGED otherVars

SpecClean == InitClean /\ [][CallCleanText]_vars

----------------------------------------------------------------------------
(* _find_safe_break_point calls *)

InitBreak ==
    /\ text \in Texts
    /\ max_chars \in 1..MaxChars
    /\ strategy = "smart"
    /\ pc = "call"
    /\ chunks = <<>>
    /\ EstIdle
    /\ SynthIdle
    /\ SplitIdle
    /\ ExtIdle

\* _find_safe_break_point(text, max_chars)
CallFindSafeBreakPoint ==
    /\ pc = "call"
    /\ found_break' = FindSafeBreakPoint(text, max_chars)
    /\ pc' = "done"
    /\ UNCHANGED <<text, max_chars, strategy, chunks, model, est, cleaned>>
    /\ UNCHANGED <<remaining, pieces>>
    /\ UNCHANGED synthVars
    /\ UNCHANGED extVars

SpecBreak == InitBreak /\ [][CallFindSafeBreakPoint]_vars

----------------------------------------------------------------------------
(* The loop that splits an over-long paragraph or sentence, step by step *)

\* the paragraphs and sentences the loop is entered with: stripped, and
\* longer than max_chars
SplitItems(mc) == {t \in Texts : StripStr(t) = t /\ Len(t) > mc}

InitSplit ==
    /\ max_chars \in 1..MaxChars
    /\ text \in SplitItems(max_chars)
    /\ strategy = "smart"
    /\ pc = "split"
    /\ chunks = <<>>
    /\ EstIdle
    /\ SynthIdle
    /\ remaining = text
    /\ pieces = <<>>
    /\ found_break = 0
    /\ ExtIdle

\* one iteration of "while para:": find the break point, append the stripped
\* piece before it, continue with the stripped rest
SplitStep ==
    /\ pc = "split"
    /\ remaining # <<>>
    /\ found_break' = FindSafeBreakPoint(remaining, max_chars)
    /\ pieces' = Append(pieces, StripStr(Take(remaining, found_break')))
    /\ remaining' = Remaining(remaining, found_break')
    /\ UNCHANGED chunkVars
    /\ UNCHANGED synthVars
    /\ UNCHANGED extVars

\* the loop runs on as long as its condition holds
SpecSplit == InitSplit /\ [][SplitStep]_vars /\ WF_vars(SplitStep)

----------------------------------------------------------------------------
(* The fixed input of the abbreviation example *)

DrText == <<"C","o","n","t","a","c","t",SP,"D","r",".",SP,"S","m","i","t","h",SP,
            "f","o","r",SP,"d","e","t","a","i","l","s",".",SP,"H","e",SP,
            "w","i","l","l",SP,"r","e","p","l","y",SP,"s","o","o","n",".">>

InitDr ==
    /\ text = DrText
    /\ max_chars \in 10..28
    /\ strategy \in Strategies
    /\ pc = "call"
    /\ chunks = <<>>
    /\ EstIdle
    /\ SynthIdle
    /\ OtherIdle

SpecDr == InitDr /\ [][NextChunk]_vars

----------------------------------------------------------------------------
(* Properties of chunk_text *)

NonWs(s) == SelectSeq(s, LAMBDA c : ~IsSpace(c))

RECURSIVE SumLen(_, _)
\* total length of the first n strings of list
SumLen(list, n) == IF n = 0 THEN 0 ELSE Len(list[n]) + SumLen(list, n - 1)

NormalizedWords == SplitWords(CleanText(text))

\* number of non-whitespace characters in chunks 1..k: where the boundary
\* after chunk k lies in the normalized input's non-whitespace characters
BoundaryOffset(k) == SumLen([j \in 1..Len(chunks) |-> NonWs(chunks[j])], k)

\* the boundary after chunk k falls strictly inside word j
BoundaryInsideWord(k, j) ==
    /\ SumLen(NormalizedWords, j - 1) < BoundaryOffset(k)
    /\ BoundaryOffset(k) < SumLen(NormalizedWords, j)

\* C1: every chunk returned by chunk_text has length <= max_chars
C1_ChunkSizeBound ==
    pc = "done" => \A k \in 1..Len(chunks) : Len(chunks[k]) <= max_chars

\* C7: joining the chunks with single spaces and splitting on whitespace
\* yields exactly the word sequence of the normalized input
C7_Reconstruction ==
    pc = "done" => SplitWords(JoinSpace(chunks)) = NormalizedWords

\* C8: no chunk boundary falls inside a whitespace-delimited word of the
\* normalized input unless that word is longer than max_chars
C8_NoBreakInsideWord ==
    pc = "done" =>
        \A k \in 1..(Len(chunks) - 1) : \A j \in 1..Len(NormalizedWords) :
            BoundaryInsideWord(k, j) => Len(NormalizedWords[j]) > max_chars

EndsWith(s, suffix) ==
    /\ Len(s) >= Len(suffix)
    /\ SubSeq(s, Len(s) - Len(suffix) + 1, Len(s)) = suffix

\* C9: on the abbreviation example with max_chars in 10..28 no chunk ends
\* immediately after "Dr."
C9_NoBreakAfterDr ==
    pc = "done" => \A k \in 1..Len(chunks) : ~EndsWith(chunks[k], <<"D", "r", ".">>)

\* C10: no chunk returned by chunk_text is empty or whitespace-only
C10_NonEmptyChunks ==
    pc = "done" => \A k \in 1..Len(chunks) : StripStr(chunks[k]) # <<>>

\* C10 witness: an input with whitespace that was too long for one chunk,
\* split into several chunks
C10_Witness ==
    /\ pc = "done"
    /\ Len(chunks) >= 2
    /\ Len(CleanText(text)) > max_chars
    /\ \E k \in 1..Len(text) : IsSpace(text[k])
    /\ \A k \in 1..Len(chunks) : StripStr(chunks[k]) # <<>>

RECURSIVE Concat(_)
\* "".join(list)
Concat(list) == IF list = <<>> THEN <<>> ELSE list[1] \o Concat(Tail(list))

\* C23: the chunks concatenated in order, with all whitespace deleted, are the
\* normalized input with all whitespace deleted
C23_NonWhitespacePreserved ==
    pc = "done" => NonWs(Concat(chunks)) = NonWs(CleanText(text))

\* C23 witness: a text that had to be cut by forced hard breaks inside a
\* word, with every character kept
C23_Witness ==
    /\ pc = "done"
    /\ Len(chunks) >= 3
    /\ \A k \in 1..Len(text) : text[k] = "a"
    /\ NonWs(Concat(chunks)) = text

----------------------------------------------------------------------------
(* Properties of _find_safe_break_point and of the split loop *)

\* a sentence terminator at Python index i that is not both preceded by an
\* uppercase letter and followed by whitespace
Unguarded(s, i) ==
    /\ IsSentenceEnd(At(s, i))
    /\ ~(/\ i >= 1
          /\ IsUpper(At(s, i - 1))
          /\ i + 1 <= Len(s) - 1
          /\ IsSpace(At(s, i + 1)))

\* b is the position just after the rightmost index of S
JustAfterRightmost(b, S) == (b - 1) \in S /\ \A j \in S : j <= b - 1

\* C25: for a text longer than max_chars the search returns the position
\* just after the rightmost unguarded sentence terminator at an index in
\* 1..max_chars, else after the rightmost newline, else after the rightmost
\* comma or semicolon, else after the rightmost whitespace, else max_chars;
\* for a text of length <= max_chars it returns the length
C25_BreakPointPriority ==
    pc = "done" =>
        LET R == 1..max_chars
            terminators == {i \in R : Unguarded(text, i)}
            newlines    == {i \in R : At(text, i) = NL}
            commas      == {i \in R : At(text, i) \in {",", ";"}}
            whitespace  == {i \in R : IsSpace(At(text, i))}
        IN  IF Len(text) <= max_chars THEN found_break = Len(text)
            ELSE IF terminators # {} THEN JustAfterRightmost(found_break, terminators)
            ELSE IF newlines # {} THEN JustAfterRightmost(found_break, newlines)
            ELSE IF commas # {} THEN JustAfterRightmost(found_break, commas)
            ELSE IF whitespace # {} THEN JustAfterRightmost(found_break, whitespace)
            ELSE found_break = max_chars

\* C25 witness: the break after a sentence terminator was chosen although a
\* whitespace character lies closer to max_chars
C25_Witness ==
    /\ pc = "done"
    /\ Len(text) > max_chars
    /\ max_chars = 3
    /\ At(text, 1) = "."
    /\ IsSpace(At(text, 3))
    /\ found_break = 2

\* the stripped piece cut from src ends with a sentence terminator that is
\* preceded in src by an uppercase letter and followed by whitespace
EndsAtGuardedTerminator(src, piece) ==
    LET p == Len(piece) - 1
    IN  /\ p >= 1
        /\ IsSentenceEnd(At(src, p))
        /\ IsUpper(At(src, p - 1))
        /\ p + 1 <= Len(src) - 1
        /\ IsSpace(At(src, p + 1))

\* C24: no piece of a split other than the last one ends with a sentence
\* terminator that is preceded by an uppercase letter and followed by
\* whitespace
C24_NoBreakAfterAbbreviation ==
    [][remaining' # <<>> =>
           ~EndsAtGuardedTerminator(remaining, pieces'[Len(pieces')])]_vars

\* C28: every iteration of the split loop gets a break point >= 1 and
\* shortens the remaining text, and the loop ends
C28_SplitTerminates ==
    /\ [][found_break' >= 1 /\ Len(remaining') < Len(remaining)]_vars
    /\ <>(remaining = <<>>)

\* C28 witness: the loop ended after three iterations
C28_Witness ==
    /\ pc = "split"
    /\ remaining = <<>>
    /\ Len(pieces) >= 3

\* the paragraphs of the normalized input
Paragraphs == SplitIntoParagraphs(CleanText(text))

\* g places every paragraph that fits in one chunk (0: the paragraph is longer
\* than max_chars), in order, every chunk that holds paragraphs is those
\* paragraphs joined with single spaces, and a paragraph starts a new chunk
\* after a paragraph that fits only if the two together would not fit
WholeAndGreedy(g) ==
    /\ \A j \in 1..Len(Paragraphs) : g[j] > 0 <=> Len(Paragraphs[j]) <= max_chars
    /\ \A i, j \in 1..Len(Paragraphs) :
           (i < j /\ g[i] > 0 /\ g[j] > 0) => g[i] <= g[j]
    /\ \A k \in 1..Len(chunks) :
           LET members == {j \in 1..Len(Paragraphs) : g[j] = k}
           IN  members # {} =>
                   /\ members = SetMin(members)..SetMax(members)
                   /\ chunks[k] = JoinSpace(SubSeq(Paragraphs, SetMin(members),
                                                   SetMax(members)))
    /\ \A j \in 2..Len(Paragraphs) :
           (g[j] > 0 /\ g[j - 1] > 0 /\ g[j] # g[j - 1]) =>
               Len(chunks[g[j - 1]]) + 1 + Len(Paragraphs[j]) > max_chars

\* C15: under the smart strategy every paragraph no longer than max_chars
\* lies whole in exactly one chunk, and it is appended to the chunk being
\* built whenever chunk, one space and paragraph stay within max_chars
C15_ParagraphsKeptWhole ==
    (pc = "done" /\ strategy = "smart") =>
        \E g \in [1..Len(Paragraphs) -> 0..Len(chunks)] : WholeAndGreedy(g)

\* C15 witness: three paragraphs that fit, the first two packed into a chunk
\* they fill exactly, the third starting the next chunk
C15_Witness ==
    /\ pc = "done"
    /\ strategy = "smart"
    /\ Len(Paragraphs) = 3
    /\ \A j \in 1..3 : Len(Paragraphs[j]) <= max_chars
    /\ Len(chunks) = 2
    /\ Len(chunks[1]) = max_chars
    /\ chunks[1] = JoinSpace(SubSeq(Paragraphs, 1, 2))

----------------------------------------------------------------------------
(* Properties of estimate_tts *)

\* estimate_tts has returned its report
Estimated == est # NoReport

\* the text has a non-whitespace character
NonBlank(s) == \E k \in 1..Len(s) : ~IsSpace(s[k])

\* on the short texts, where both apply, the report for a normalized line
\* within the limit is the report estimate_tts computes
LineReportAgrees ==
    (Estimated /\ Len(text) <= MaxEstLen) =>
        est = EstimateTts(text, cfg.voice, model, max_chars)

\* the rate of the model in units of 0.00001 USD per 1000 characters:
\* 0.00015 for gpt-4o-mini-tts, and the same rate as the default for a model
\* that is not in the table
RateOf(m) == IF m = "gpt-4o-mini-tts" THEN 15 ELSE 15

\* C16: estimated_cost_usd differs by less than 0.0001 from
\* (total_characters / 1000) * rate, total_characters being the length of the
\* normalized text and rate the table entry or the default 0.00015
C16_CostFormula ==
    Estimated =>
        LET diff == 10000 * est.estimated_cost_usd
                        - est.total_characters * RateOf(model)
        IN  /\ -10000 < diff /\ diff < 10000
            /\ Len(text) <= MaxEstLen =>
                   est.total_characters = Len(CleanText(text))
            /\ Len(text) > MaxEstLen => est.total_characters = Len(text)

\* C16 witness: a text of more than 1000 characters priced with the default
\* rate for a model that is not in the table
C16_Witness ==
    /\ Estimated
    /\ model \notin DOMAIN TTS_PRICING
    /\ est.total_characters > 1000
    /\ est.estimated_cost_usd = 2

\* C17: for a text with a non-whitespace character the report has
\* total_characters, total_words, num_chunks, estimated_minutes and
\* estimated_cost_usd all greater than 0
C17_AllPositive ==
    (Estimated /\ NonBlank(text)) =>
        /\ est.total_characters > 0
        /\ est.total_words > 0
        /\ est.num_chunks > 0
        /\ est.estimated_minutes > 0
        /\ est.estimated_cost_usd > 0

\* C17 as amended: for a text with a non-whitespace character the three
\* counts are greater than 0; the rounded estimated_minutes is greater than 0
\* exactly from 8 words on and the rounded estimated_cost_usd exactly from 334
\* characters on, and both are 0 below
C17_PositiveCounts ==
    (Estimated /\ NonBlank(text)) =>
        /\ est.total_characters > 0
        /\ est.total_words > 0
        /\ est.num_chunks > 0
        /\ est.estimated_minutes >= 0
        /\ est.estimated_minutes > 0 <=> est.total_words >= 8
        /\ est.estimated_cost_usd >= 0
        /\ est.estimated_cost_usd > 0 <=> est.total_characters >= 334

\* C17 witness: a text of 8 words and fewer than 334 characters: the minutes
\* are reported as 0.1, the cost as 0
C17_Witness ==
    /\ Estimated
    /\ est.total_words = 8
    /\ est.total_characters < 334
    /\ est.estimated_minutes = 1
    /\ est.estimated_cost_usd = 0

\* C18: when num_chunks > 0, avg_chunk_size is greater than 0 and at most the
\* maximum chunk size (3500 in the program)
C18_AvgChunkSizeBound ==
    (Estimated /\ est.num_chunks > 0) =>
        /\ est.avg_chunk_size > 0
        /\ est.avg_chunk_size <= 10 * est.max_chars_per_chunk

\* C19: on the empty string and on whitespace-only strings chunk_text
\* returns the empty sequence under every strategy, and estimate_tts reports
\* 0 for total_characters, total_words, num_chunks, avg_chunk_size,
\* estimated_minutes and estimated_cost_usd
C19_BlankInput ==
    ~NonBlank(text) =>
        /\ pc = "done" => chunks = <<>>
        /\ Estimated =>
               /\ est.total_characters = 0
               /\ est.total_words = 0
               /\ est.num_chunks = 0
               /\ est.avg_chunk_size = 0
               /\ est.estimated_minutes = 0
               /\ est.estimated_cost_usd = 0

\* C19 witness: chunk_text and estimate_tts both returned on a text of
\* spaces, tabs and newlines
C19_Witness ==
    /\ pc = "done"
    /\ Estimated
    /\ Len(text) >= 3
    /\ {text[k] : k \in 1..Len(text)} = WhitespaceChars
    /\ chunks = <<>>
    /\ est.num_chunks = 0
    /\ est.avg_chunk_size = 0

----------------------------------------------------------------------------
(* Properties of _clean_text *)

\* spaces and tabs
HorizontalWs == {SP, "\t"}

\* C20: the output of _clean_text has no run of three or more newlines, no
\* run of two or more spaces or tabs, and no leading or trailing whitespace;
\* the empty string is mapped to the empty string
C20_NormalizedText ==
    pc = "done" =>
        /\ \A k \in 1..(Len(cleaned) - 2) :
               ~(cleaned[k] = NL /\ cleaned[k + 1] = NL /\ cleaned[k + 2] = NL)
        /\ \A k \in 1..(Len(cleaned) - 1) :
               ~(cleaned[k] \in HorizontalWs /\ cleaned[k + 1] \in HorizontalWs)
        /\ cleaned # <<>> =>
               ~IsSpace(cleaned[1]) /\ ~IsSpace(cleaned[Len(cleaned)])
        /\ text = <<>> => cleaned = <<>>

----------------------------------------------------------------------------
(* synthesize and the commands that call it *)

ValidBitrates == {"32k", "64k", "96k", "128k", "192k", "256k", "320k"}

\* decoded durations (ms) a synthesis response can have
SegDurations == {0, 30000, 60000, 60001}

\* no chunk_text call is being observed; synthesize and estimate_tts chunk
\* with the default max_chars
ChunkIdle ==
    /\ max_chars = DefaultMaxChars
    /\ strategy = "smart"
    /\ pc = "idle"
    /\ chunks = <<>>
    /\ EstIdle

\* "if total_ms / 1000 / 60 > max_minutes"
ExceedsCeilingInclusive(total, max_minutes) == total >= max_minutes * 1000 * 60

ExceedsCeiling(total, max_minutes) == total > max_minutes * 1000 * 60

\* the exception with the loop index taken as the chunk number
RaiseInTryZeroBased(i, inner) == [class |-> "Exception", chunk |-> i, cause |-> inner]

\* "except Exception as e: raise Exception(f"TTS request failed for chunk {i+1}: {e}")"
\* whatever is raised inside the loop's try block leaves as a plain Exception
RaiseInTry(i, inner) == [class |-> "Exception", chunk |-> i + 1, cause |-> inner]

\* the new segment put in front of the accumulated audio
PrependSegment(audio, seg) == <<seg>> \o audio

\* "combined += seg"
AppendSegment(audio, seg) == Append(audio, seg)

\* the counter set to the duration of the last segment
AddDurationLast(total, seg_ms) == seg_ms

\* "total_ms += len(seg)"
AddDuration(total, seg_ms) == total + seg_ms

\* the key only tested for being set
KeyPresent == api_key # "missing"

\* check_openai_key / check_openai_api_key: the key is set and starts with "sk-"
KeyValid == api_key = "valid"

\* the configuration values add validates before it calls synthesize
ConfigValuesValid ==
    /\ cfg.voice # ""
    /\ cfg.max_minutes > 0
    /\ cfg.bitrate \in ValidBitrates

\* the texts synthesize is given in dry-run mode
DryTexts == UNION {[1..n -> Alphabet] : n \in 0..MaxDryLen}

InitSynth ==
    /\ ChunkIdle
    /\ OtherIdle
    /\ cmd \in {"add", "fetch_email", "direct"}
    /\ cfg \in [voice : {"", "alloy"}, bitrate : {"64k", "64"},
                max_minutes : -1..MaxMinutes]
    /\ api_key \in {"missing", "malformed", "valid"}
    /\ dry_run \in (IF cmd = "direct" THEN BOOLEAN ELSE {FALSE})
    /\ text \in (IF dry_run THEN DryTexts ELSE {<<>>})
    /\ msgs_left \in (IF cmd = "fetch_email" THEN 0..MaxMsgs ELSE {0})
    /\ nchunks = 0
    /\ idx = 0
    /\ result = NoResult
    /\ s_pc = IF cmd = "direct" THEN "synth_enter" ELSE "start"
    /\ calls = <<>>
    /\ combined = <<>>
    /\ total_ms = 0
    /\ error = NoError
    /\ exported = 0
    /\ out_audio = NoFile
    /\ handler = "none"
    /\ exit_code = -1

runVars == <<nchunks, idx, result, calls, combined, total_ms, error, exported,
             out_audio>>

\* add, up to the call of synthesize: validate_config, then the voice,
\* max_minutes and bitrate checks, each ending the command with exit code 1
AddValidate ==
    /\ cmd = "add"
    /\ s_pc = "start"
    /\ IF ~KeyValid
       THEN /\ handler' = "validate_config"
            /\ exit_code' = 1
            /\ s_pc' = "exit"
       ELSE IF ~ConfigValuesValid
       THEN /\ handler' = "ConfigurationError"
            /\ exit_code' = 1
            /\ s_pc' = "exit"
       ELSE /\ s_pc' = "synth_enter"
            /\ UNCHANGED <<handler, exit_code>>
    /\ UNCHANGED <<cmd, cfg, api_key, dry_run, msgs_left>>
    /\ UNCHANGED runVars
    /\ UNCHANGED chunkVars
    /\ UNCHANGED otherVars

\* fetch_email, up to the first call of synthesize: validate_config only,
\* then fetch_gmail; no messages ends the command
FetchValidate ==
    /\ cmd = "fetch_email"
    /\ s_pc = "start"
    /\ IF ~KeyValid
       THEN /\ handler' = "validate_config"
            /\ exit_code' = 1
            /\ s_pc' = "exit"
       ELSE IF msgs_left = 0
       THEN /\ exit_code' = 0
            /\ s_pc' = "exit"
            /\ UNCHANGED handler
       ELSE /\ s_pc' = "synth_enter"
            /\ UNCHANGED <<handler, exit_code>>
    /\ UNCHANGED <<cmd, cfg, api_key, dry_run, msgs_left>>
    /\ UNCHANGED runVars
    /\ UNCHANGED chunkVars
    /\ UNCHANGED otherVars

\* the API key validated before the dry-run test
EntryBranchKeyFirst(dry, key_ok) ==
    IF ~key_ok THEN "raise" ELSE IF dry THEN "estimate" ELSE "chunk"

\* the order of synthesize's first statements: "if dry_run: ... return",
\* then check_openai_api_key, then chunk_text
EntryBranch(dry, key_ok) ==
    IF dry THEN "estimate" ELSE IF ~key_ok THEN "raise" ELSE "chunk"

\* synthesize from its entry to the start of the loop: the dry-run return,
\* the API key check, chunk_text, and the empty accumulator
SynthEnter ==
    /\ s_pc = "synth_enter"
    /\ calls' = <<>>
    /\ combined' = <<>>
    /\ total_ms' = 0
    /\ exported' = 0
    /\ out_audio' = NoFile
    /\ idx' = 0
    /\ IF EntryBranch(dry_run, KeyValid) = "estimate"
       THEN /\ result' = DryRunReturn(text, cfg.voice, max_chars)
            /\ error' = NoError
            /\ nchunks' = 0
            /\ s_pc' = "returned"
       ELSE IF EntryBranch(dry_run, KeyValid) = "raise"
       THEN /\ result' = NoResult
            /\ error' = [class |-> "ValidationError", chunk |-> 0,
                         cause |-> "api_key"]
            /\ nchunks' = 0
            /\ s_pc' = "raised"
       ELSE /\ result' = NoResult
            /\ error' = NoError
            /\ \E n \in 0..MaxChunks :
                  /\ nchunks' = n
                  /\ s_pc' = IF n = 0 THEN "finalize" ELSE "request"
    /\ UNCHANGED <<cmd, cfg, api_key, dry_run, msgs_left, handler, exit_code>>
    /\ UNCHANGED chunkVars
    /\ UNCHANGED otherVars

\* one iteration, first half: client.audio.speech.create for chunk idx
SpeechCreate ==
    /\ s_pc = "request"
    /\ calls' = Append(calls, idx + 1)
    /\ \E ok \in BOOLEAN :
          IF ok
          THEN /\ s_pc' = "decode"
               /\ UNCHANGED error
          ELSE /\ s_pc' = "raised"
               /\ error' = RaiseInTry(idx, "api")
    /\ UNCHANGED <<cmd, cfg, api_key, dry_run, msgs_left, handler, exit_code,
                   nchunks, idx, result, combined, total_ms, exported, out_audio>>
    /\ UNCHANGED chunkVars
    /\ UNCHANGED otherVars

\* one iteration, second half: decode the response, append it, add its
\* duration, check the ceiling
DecodeAppend ==
    /\ s_pc = "decode"
    /\ \/ /\ s_pc' = "raised"
          /\ error' = RaiseInTry(idx, "decode")
          /\ UNCHANGED <<combined, total_ms, idx>>
       \/ \E d \in SegDurations :
             /\ combined' = AppendSegment(combined, [chunk |-> idx + 1, ms |-> d])
             /\ total_ms' = AddDuration(total_ms, d)
             /\ IF ExceedsCeiling(total_ms', cfg.max_minutes)
                THEN /\ s_pc' = "raised"
                     /\ error' = RaiseInTry(idx, "TTSLengthError")
                     /\ UNCHANGED idx
                ELSE /\ idx' = idx + 1
                     /\ s_pc' = IF idx + 1 < nchunks THEN "request" ELSE "finalize"
                     /\ UNCHANGED error
    /\ UNCHANGED <<cmd, cfg, api_key, dry_run, msgs_left, handler, exit_code,
                   nchunks, result, calls, exported, out_audio>>
    /\ UNCHANGED chunkVars
    /\ UNCHANGED otherVars

\* the accumulated audio exported as it is
ExportedFileRaw(audio) == [written |-> TRUE, normalized |-> FALSE, segs |-> audio]

\* "combined = pydub_normalize(combined); combined.export(out_path, ...)":
\* the file holds the normalized accumulated audio
ExportedFile(audio) == [written |-> TRUE, normalized |-> TRUE, segs |-> audio]

\* "Normalize and export": pydub_normalize, combined.export, read_bytes;
\* an exception of the export is re-raised as it is
Export ==
    /\ s_pc = "finalize"
    /\ \/ /\ exported' = exported + 1
          /\ out_audio' = ExportedFile(combined)
          /\ result' = ReadBytes(out_audio')
          /\ s_pc' = "returned"
          /\ UNCHANGED error
       \/ /\ error' = [class |-> "Exception", chunk |-> 0, cause |-> "export"]
          /\ s_pc' = "raised"
          /\ UNCHANGED <<exported, out_audio, result>>
    /\ UNCHANGED <<cmd, cfg, api_key, dry_run, msgs_left, handler, exit_code,
                   nchunks, idx, calls, combined, total_ms>>
    /\ UNCHANGED chunkVars
    /\ UNCHANGED otherVars

\* the first except clause of add's try around synthesize that matches
AddHandlerFor(e) ==
    IF e.class = "TTSLengthError" THEN "TTSLengthError"
    ELSE IF e.class = "ValidationError" THEN "ValidationError"
    ELSE "Exception"

\* add after synthesize: one of the three except clauses (exit code 1), or
\* the episode is stored
AddHandle ==
    /\ cmd = "add"
    /\ s_pc \in {"returned", "raised"}
    /\ IF s_pc = "raised"
       THEN /\ handler' = AddHandlerFor(error)
            /\ exit_code' = 1
       ELSE /\ exit_code' = 0
            /\ UNCHANGED handler
    /\ s_pc' = "exit"
    /\ UNCHANGED <<cmd, cfg, api_key, dry_run, msgs_left>>
    /\ UNCHANGED runVars
    /\ UNCHANGED chunkVars
    /\ UNCHANGED otherVars

\* fetch_email after synthesize: "except Exception: ... continue", or the
\* episode is stored; then the next message, if any
FetchHandle ==
    /\ cmd = "fetch_email"
    /\ s_pc \in {"returned", "raised"}
    /\ handler' = IF s_pc = "raised" THEN "Exception" ELSE "none"
    /\ msgs_left' = msgs_left - 1
    /\ IF msgs_left - 1 > 0
       THEN /\ s_pc' = "synth_enter"
            /\ UNCHANGED exit_code
       ELSE /\ s_pc' = "exit"
            /\ exit_code' = 0
    /\ UNCHANGED <<cmd, cfg, api_key, dry_run>>
    /\ UNCHANGED runVars
    /\ UNCHANGED chunkVars
    /\ UNCHANGED otherVars

NextSynth ==
    \/ AddValidate
    \/ FetchValidate
    \/ SynthEnter
    \/ SpeechCreate
    \/ DecodeAppend
    \/ Export
    \/ AddHandle
    \/ FetchHandle

SpecSynth == InitSynth /\ [][NextSynth]_vars

----------------------------------------------------------------------------
(* Properties of synthesize *)

RECURSIVE SumMs(_, _)
\* total duration of the first n segments
SumMs(segs, n) == IF n = 0 THEN 0 ELSE segs[n].ms + SumMs(segs, n - 1)

\* the step decodes a chunk's response: AudioSegment.from_file returned
Decoded == s_pc = "decode" /\ error'.cause # "decode"

\* C29: total_ms equals the summed duration of the segments appended to
\* combined so far; a synthesize call starts both at zero / empty, and from
\* then on they change only together, once per decoded chunk, by that
\* chunk's segment, so total_ms never decreases
C29_TotalMsIsBufferDuration ==
    /\ [](total_ms = SumMs(combined, Len(combined)))
    /\ [][IF s_pc = "synth_enter"
          THEN total_ms' = 0 /\ combined' = <<>>
          ELSE /\ total_ms' >= total_ms
               /\ Decoded =>
                      /\ Len(combined') = Len(combined) + 1
                      /\ SubSeq(combined', 1, Len(combined)) = combined
                      /\ combined'[Len(combined')].chunk = idx + 1
                      /\ total_ms' = total_ms + combined'[Len(combined')].ms
               /\ ~Decoded =>
                      /\ combined' = combined
                      /\ total_ms' = total_ms]_vars

\* three chunks were decoded, with segments of different positive durations
C29_Witness ==
    /\ Len(combined) = 3
    /\ total_ms = SumMs(combined, 3)
    /\ combined[1].ms > 0
    /\ combined[2].ms > combined[1].ms
    /\ combined[3].ms > 0

CeilingMs == cfg.max_minutes * 60000

\* synthesize is between two statements of its body
Running == s_pc \in {"request", "decode", "finalize"}

\* the sequence 1, 2, ..., n
UpTo(n) == [j \in 1..n |-> j]

\* C2: when the cumulative duration exceeds max_minutes, the error that
\* reaches the caller of synthesize is TTSLengthError, and add's
\* TTSLengthError handler is the one that runs
C2_LengthErrorReachesCaller ==
    error.cause = "TTSLengthError" =>
        /\ error.class = "TTSLengthError"
        /\ (cmd = "add" /\ s_pc = "exit" => handler = "TTSLengthError")

\* C3: the run aborts right after appending the first chunk k whose running
\* total is strictly greater than max_minutes*60000 ms: k synthesis calls,
\* none after, no export; a total that never exceeds the limit (equality
\* included) never makes the ceiling check abort
C3_CeilingAbort ==
    /\ \A j \in 1..(Len(combined) - 1) : SumMs(combined, j) <= CeilingMs
    /\ (Len(combined) > 0 /\ SumMs(combined, Len(combined)) > CeilingMs) =>
           /\ ~Running /\ s_pc # "returned"
           /\ error.cause = "TTSLengthError"
           /\ error.chunk = Len(combined)
           /\ calls = UpTo(Len(combined))
           /\ exported = 0
           /\ ~out_audio.written
    /\ error.cause = "TTSLengthError" =>
           SumMs(combined, Len(combined)) > CeilingMs

\* C3 witness: the ceiling was crossed before the last chunk and the run
\* was aborted with chunks left unrequested
C3_Witness ==
    /\ s_pc = "raised"
    /\ error.cause = "TTSLengthError"
    /\ Len(combined) >= 2
    /\ Len(calls) < nchunks
    /\ SumMs(combined, Len(combined) - 1) = CeilingMs
    /\ exported = 0

\* C4: when the synthesis call or the decode of chunk i fails the run is
\* aborted: chunks 1..i were each requested once and no other, nothing is
\* exported, and the error names chunk i (1-based)
C4_ChunkFailureAborts ==
    error.cause \in {"api", "decode"} =>
        /\ ~Running /\ s_pc # "returned"
        /\ error.chunk = Len(calls)
        /\ calls = UpTo(error.chunk)
        /\ Len(combined) = error.chunk - 1
        /\ exported = 0
        /\ ~out_audio.written

\* C4 witness: a chunk in the middle of the sequence failed
C4_Witness ==
    /\ s_pc = "raised"
    /\ error.cause \in {"api", "decode"}
    /\ error.chunk = 2
    /\ nchunks = 3
    /\ calls = <<1, 2>>

\* C5: synthesis calls are issued in chunk order one at a time, the
\* accumulated audio is always the segments of chunks 1..i in order, and so
\* is the exported audio
C5_ChunkOrder ==
    /\ calls = UpTo(Len(calls))
    /\ \A j \in 1..Len(combined) : combined[j].chunk = j
    /\ Len(combined) <= Len(calls)
    /\ Len(calls) <= Len(combined) + 1
    /\ s_pc = "request" => Len(calls) = idx /\ Len(combined) = idx
    /\ s_pc = "decode" => Len(calls) = idx + 1 /\ Len(combined) = idx
    /\ out_audio.written =>
           /\ Len(out_audio.segs) = nchunks
           /\ \A j \in 1..nchunks : out_audio.segs[j].chunk = j

\* C5 witness: a run over several chunks was exported
C5_Witness ==
    /\ s_pc = "returned"
    /\ out_audio.written
    /\ nchunks = 3
    /\ Len(out_audio.segs) = 3

\* C6: synthesize with an invalid bitrate, a non-positive max_minutes or an
\* empty voice fails with a configuration error before any synthesis call
\* and without output, on every path that reaches it
C6_ConfigErrorBeforeCalls ==
    (~dry_run /\ ~ConfigValuesValid) =>
        /\ calls = <<>>
        /\ exported = 0
        /\ ~out_audio.written
        /\ error.cause \in {"none", "api_key"}

\* C11: synthesize(text, voice, path, dry_run=True) returns a value equal to
\* estimate_tts(text, voice), makes no synthesis call and leaves the file at
\* path alone
C11_DryRunEquivalence ==
    (dry_run /\ s_pc = "returned") =>
        /\ result.kind = "estimation"
        /\ result.report = EstimateTts(text, cfg.voice, DefaultModel, DefaultMaxChars)
        /\ calls = <<>>
        /\ exported = 0
        /\ out_audio = NoFile

\* C11 witness: a dry run over a text of two words with a voice that is not
\* the default returned its report
C11_Witness ==
    /\ dry_run
    /\ s_pc = "returned"
    /\ cfg.voice # "alloy"
    /\ result.report.total_words = 2
    /\ result.report.voice = cfg.voice

\* C12: in dry-run mode synthesize never fails: whatever the API key, the
\* bitrate and max_minutes, it returns the report and raises nothing
C12_DryRunNeverFails ==
    dry_run =>
        /\ error = NoError
        /\ s_pc \in {"synth_enter", "returned"}
        /\ s_pc = "returned" => result.kind = "estimation"

\* C12 witness: a dry run returned its report although the key is not valid,
\* the bitrate is not a valid one and max_minutes is not positive
C12_Witness ==
    /\ dry_run
    /\ s_pc = "returned"
    /\ api_key \in {"missing", "malformed"}
    /\ cfg.bitrate \notin ValidBitrates
    /\ cfg.max_minutes <= 0
    /\ result.kind = "estimation"

\* C13: the export happens at most once per run, only after every chunk was
\* requested and appended with the running total within the ceiling, and it
\* writes the normalized full audio; the bytes returned are the file's content
C13_ExportOnceAtEnd ==
    /\ exported <= 1
    /\ exported = 1 <=> out_audio.written
    /\ out_audio.written =>
           /\ calls = UpTo(nchunks)
           /\ Len(combined) = nchunks
           /\ \A j \in 1..Len(combined) : SumMs(combined, j) <= CeilingMs
           /\ out_audio.normalized
           /\ out_audio.segs = combined
    /\ (~dry_run /\ s_pc = "returned") =>
           /\ out_audio.written
           /\ result.kind = "bytes"
           /\ result.data = out_audio

\* C13 witness: a run over several chunks that ended exactly at the ceiling
\* exported its audio and returned it
C13_Witness ==
    /\ s_pc = "returned"
    /\ ~dry_run
    /\ nchunks >= 2
    /\ exported = 1
    /\ SumMs(combined, Len(combined)) = CeilingMs
    /\ result.data.segs = combined

\* C14: in non-dry-run mode with a missing or malformed API key, synthesize
\* raises ValidationError before chunking and before any synthesis call, and
\* writes no output file
C14_InvalidKeyRaisesFirst ==
    (~dry_run /\ api_key \in {"missing", "malformed"} /\ s_pc # "synth_enter") =>
        /\ nchunks = 0
        /\ calls = <<>>
        /\ exported = 0
        /\ out_audio = NoFile
        /\ s_pc = "raised" => error.class = "ValidationError"
        /\ cmd = "direct" => s_pc = "raised"
        /\ s_pc \notin {"request", "decode", "finalize", "returned"}

\* C14 witness: synthesize was called with a key that is set but does not
\* start with "sk-" and raised ValidationError
C14_Witness ==
    /\ ~dry_run
    /\ api_key = "malformed"
    /\ s_pc = "raised"
    /\ error.class = "ValidationError"
    /\ calls = <<>>

----------------------------------------------------------------------------
(* The doctor command (cli.py) *)

MaxChecks == 4

\* CheckResult.status
Statuses == {"pass", "warn", "fail"}

\* the result lists validate_runtime can return
CheckLists == UNION {[1..n -> Statuses] : n \in 0..MaxChecks}

\* len([r for r in results if r.status == st])
CountStatus(rs, st) == Cardinality({k \in 1..Len(rs) : rs[k] = st})

\* get_check_summary(results)
GetCheckSummary(rs) ==
    [total        |-> Len(rs),
     passed       |-> CountStatus(rs, "pass"),
     warnings     |-> CountStatus(rs, "warn"),
     failed       |-> CountStatus(rs, "fail"),
     all_passed   |-> CountStatus(rs, "fail") = 0,
     has_warnings |-> CountStatus(rs, "warn") > 0]

\* the exit_code doctor's "Display summary" branches assign
SummaryExitCode(summary) ==
    IF summary.failed > 0 THEN 2
    ELSE IF summary.warnings > 0 THEN 1
    ELSE 0

\* typer.Exit is click.exceptions.Exit, a subclass of RuntimeError: an
\* "except Exception" clause catches it like any other exception
CaughtByExceptException(class) == class \in {"Exception", "typer.Exit"}

InitDoctor ==
    /\ text = <<>>
    /\ ChunkIdle
    /\ SynthIdle
    /\ SplitIdle
    /\ PrepIdle
    /\ StoreIdle
    /\ RepeatIdle
    /\ results \in CheckLists
    /\ d_pc = "try"
    /\ d_raised = NoRaise
    /\ doctor_exit = -1

\* the body of doctor's try block: configuration, logging, the checks, the
\* table and the summary; a non-zero exit_code is raised as typer.Exit
\* inside the block
DoctorTry ==
    /\ d_pc = "try"
    /\ \/ /\ d_raised' = [class |-> "Exception", code |-> -1]
          /\ d_pc' = "raised"
          /\ UNCHANGED doctor_exit
       \/ LET code == SummaryExitCode(GetCheckSummary(results))
          IN  IF code # 0
              THEN /\ d_raised' = [class |-> "typer.Exit", code |-> code]
                   /\ d_pc' = "raised"
                   /\ UNCHANGED doctor_exit
              ELSE /\ d_pc' = "exit"
                   /\ doctor_exit' = 0
                   /\ UNCHANGED d_raised
    /\ UNCHANGED results
    /\ UNCHANGED <<chunkVars, synthVars, splitVars, prepVars, storeVars, repeatVars>>

\* "except Exception as e: ... raise typer.Exit(code=1)"
DoctorExcept ==
    /\ d_pc = "raised"
    /\ d_pc' = "exit"
    /\ doctor_exit' = IF CaughtByExceptException(d_raised.class)
                      THEN 1
                      ELSE d_raised.code
    /\ UNCHANGED <<results, d_raised>>
    /\ UNCHANGED <<chunkVars, synthVars, splitVars, prepVars, storeVars, repeatVars>>

NextDoctor == DoctorTry \/ DoctorExcept

SpecDoctor == InitDoctor /\ [][NextDoctor]_vars

\* the checks ran to the end: nothing but the exit at the end of the try
\* block was raised
ChecksCompleted == d_pc = "exit" /\ d_raised.class # "Exception"

\* C27: doctor exits with code 2 when at least one check failed, with 1
\* when none failed but at least one warned, and with 0 when all passed
C27_DoctorExitCodes ==
    ChecksCompleted =>
        doctor_exit = IF CountStatus(results, "fail") > 0 THEN 2
                      ELSE IF CountStatus(results, "warn") > 0 THEN 1
                      ELSE 0

----------------------------------------------------------------------------
(* The episode store (store.py) and the commands that fill it (cli.py) *)

\* the hash column
Hashes(rws) == {rws[k].hash : k \in 1..Len(rws)}

\* a plain INSERT that finds no constraint in its way
InsertRow(rws, row) == Append(rws, row)

\* "INSERT OR IGNORE INTO episodes ..." under "hash TEXT NOT NULL UNIQUE":
\* a row whose hash is already stored is skipped
InsertOrIgnore(rws, row) ==
    IF row.hash \in Hashes(rws) THEN rws ELSE Append(rws, row)

\* DB.add_episode(title, source, mp3_path, duration_sec, content_bytes):
\* the table after the call
AddEpisode(rws, title, mp3_path, content_bytes) ==
    InsertOrIgnore(rws, [title    |-> title,
                         hash     |-> Sha256(content_bytes),
                         mp3_path |-> mp3_path])

\* what an add_episode call leaves in last_add
CallRecord(rws, content_bytes) ==
    [hash     |-> Sha256(content_bytes),
     inserted |-> Sha256(content_bytes) \notin Hashes(rws)]

InitStore ==
    /\ text = <<>>
    /\ ChunkIdle
    /\ SynthIdle
    /\ SplitIdle
    /\ DoctorIdle
    /\ PrepIdle
    /\ RepeatIdle
    /\ StoreIdle

\* a direct add_episode call
CallAddEpisode ==
    /\ \E title \in Titles, mp3_path \in Paths, content_bytes \in Audio :
          /\ rows' = AddEpisode(rows, title, mp3_path, content_bytes)
          /\ last_add' = CallRecord(rows, content_bytes)
    /\ UNCHANGED files
    /\ UNCHANGED <<chunkVars, synthVars, splitVars, doctorVars, prepVars, repeatVars>>

SpecStore == InitStore /\ [][CallAddEpisode]_vars

\* C30: no two stored episodes have the same content hash, and an
\* add_episode call with content whose SHA-256 is already stored leaves the
\* table as it was
C30_UniqueHashes ==
    /\ [](\A j, k \in 1..Len(rows) : rows[j].hash = rows[k].hash => j = k)
    /\ [][last_add'.hash \in Hashes(rows) => rows' = rows]_vars

\* a duplicate was offered to a table of two episodes and was not inserted
C30_Witness ==
    /\ Len(rows) = 2
    /\ last_add # NoCall
    /\ ~last_add.inserted
    /\ last_add.hash = rows[1].hash

\* one episode creation of add / fetch-email: synthesize exports the audio
\* to the title's mp3 path and returns the file's bytes, add_episode stores
\* them; NoAudio stands for a synthesize call that raised before exporting
CreateEpisode(lib, ep_title, content_bytes) ==
    IF content_bytes = NoAudio
    THEN lib
    ELSE [rows     |-> AddEpisode(lib.rows, ep_title, Mp3Path(ep_title),
                                  content_bytes),
          files    |-> [lib.files EXCEPT ![Mp3Path(ep_title)] = content_bytes],
          last_add |-> CallRecord(lib.rows, content_bytes)]

Library == [rows |-> rows, files |-> files, last_add |-> last_add]

\* nl2audio add that gets through synthesize
AddCommand ==
    /\ \E ep_title \in Titles, content_bytes \in Audio :
          LET lib == CreateEpisode(Library, ep_title, content_bytes)
          IN  /\ rows' = lib.rows
              /\ files' = lib.files
              /\ last_add' = lib.last_add
    /\ cmd' = "add"
    /\ UNCHANGED <<cfg, api_key, dry_run, msgs_left, nchunks, idx, result, s_pc,
                   calls, combined, total_ms, error, exported, out_audio,
                   handler, exit_code>>
    /\ UNCHANGED <<chunkVars, splitVars, doctorVars, prepVars, repeatVars>>

\* one message of nl2audio fetch-email: an iteration of
\* "for i, msg in enumerate(messages, 1)"; a message whose synthesis fails
\* is skipped
FetchEmailMessage ==
    /\ \E ep_title \in Titles, content_bytes \in Audio \cup {NoAudio} :
          LET lib == CreateEpisode(Library, ep_title, content_bytes)
          IN  /\ rows' = lib.rows
              /\ files' = lib.files
              /\ last_add' = lib.last_add
    /\ cmd' = "fetch_email"
    /\ UNCHANGED <<cfg, api_key, dry_run, msgs_left, nchunks, idx, result, s_pc,
                   calls, combined, total_ms, error, exported, out_audio,
                   handler, exit_code>>
    /\ UNCHANGED <<chunkVars, splitVars, doctorVars, prepVars, repeatVars>>

NextLibrary == AddCommand \/ FetchEmailMessage

SpecLibrary == InitStore /\ [][NextLibrary]_vars

\* C26: every stored episode's hash is the SHA-256 of what the file at its
\* mp3_path now holds, and no command changes the audio file of an episode
\* that is already stored
C26_StoredAudioIntact ==
    /\ [](\A k \in 1..Len(rows) :
             /\ files[rows[k].mp3_path] # NoAudio
             /\ Sha256(files[rows[k].mp3_path]) = rows[k].hash)
    /\ [][\A k \in 1..Len(rows) :
             files'[rows[k].mp3_path] = files[rows[k].mp3_path]]_vars

----------------------------------------------------------------------------
(* llm_clean_for_tts (prep.py) *)

\* newsletter texts and the rewrites the model can answer with
PrepTexts == {<<>>, <<"a">>, <<"a", " ", "b">>}
Rewrites == {<<"a">>, <<"b">>}

\* the responses chat.completions.create can return: with or without a
\* choice, with or without usage data
Responses == [choices : {0, 1}, content : Rewrites, usage : BOOLEAN]

PrepEnvs == [key : {"missing", "malformed", "valid"}, client_ok : BOOLEAN,
             request_ok : BOOLEAN, response : Responses]

\* an except clause that names ValidationError only
CatchesValidationError(exc) == exc = "ValidationError"

\* "except Exception as e": every exception raised by a step is caught
CatchesException(exc) == exc # "none"

InitPrep ==
    /\ text \in PrepTexts
    /\ ChunkIdle
    /\ SynthIdle
    /\ SplitIdle
    /\ DoctorIdle
    /\ StoreIdle
    /\ RepeatIdle
    /\ p_pc = "check_key"
    /\ p_env \in PrepEnvs
    /\ p_exc = "none"
    /\ p_ret = <<>>

\* "api_key = check_openai_api_key()": ValidationError unless the variable
\* is set and starts with "sk-"
PrepCheckKey ==
    /\ p_pc = "check_key"
    /\ IF p_env.key = "valid"
       THEN p_pc' = "client" /\ UNCHANGED p_exc
       ELSE p_pc' = "except" /\ p_exc' = "ValidationError"
    /\ UNCHANGED <<p_env, p_ret>>
    /\ UNCHANGED <<chunkVars, synthVars, splitVars, doctorVars, storeVars, repeatVars>>

\* "client = OpenAI(api_key=api_key)"
PrepClient ==
    /\ p_pc = "client"
    /\ IF p_env.client_ok
       THEN p_pc' = "request" /\ UNCHANGED p_exc
       ELSE p_pc' = "except" /\ p_exc' = "OpenAIError"
    /\ UNCHANGED <<p_env, p_ret>>
    /\ UNCHANGED <<chunkVars, synthVars, splitVars, doctorVars, storeVars, repeatVars>>

\* "response = client.chat.completions.create(...)"
PrepRequest ==
    /\ p_pc = "request"
    /\ IF p_env.request_ok
       THEN p_pc' = "read" /\ UNCHANGED p_exc
       ELSE p_pc' = "except" /\ p_exc' = "APIError"
    /\ UNCHANGED <<p_env, p_ret>>
    /\ UNCHANGED <<chunkVars, synthVars, splitVars, doctorVars, storeVars, repeatVars>>

\* "result = response.choices[0].message.content", the log line that reads
\* response.usage.total_tokens, "return result"
PrepRead ==
    /\ p_pc = "read"
    /\ IF p_env.response.choices = 0
       THEN p_pc' = "except" /\ p_exc' = "IndexError" /\ UNCHANGED p_ret
       ELSE IF ~p_env.response.usage
       THEN p_pc' = "except" /\ p_exc' = "AttributeError" /\ UNCHANGED p_ret
       ELSE p_pc' = "returned" /\ p_ret' = p_env.response.content /\ UNCHANGED p_exc
    /\ UNCHANGED p_env
    /\ UNCHANGED <<chunkVars, synthVars, splitVars, doctorVars, storeVars, repeatVars>>

\* the except clause: "return text" when it catches, else the exception
\* leaves the function
PrepExcept ==
    /\ p_pc = "except"
    /\ IF CatchesException(p_exc)
       THEN p_pc' = "returned" /\ p_ret' = text
       ELSE p_pc' = "raised" /\ UNCHANGED p_ret
    /\ UNCHANGED <<p_env, p_exc>>
    /\ UNCHANGED <<chunkVars, synthVars, splitVars, doctorVars, storeVars, repeatVars>>

NextPrep == PrepCheckKey \/ PrepClient \/ PrepRequest \/ PrepRead \/ PrepExcept

SpecPrep == InitPrep /\ [][NextPrep]_vars

\* every step of the call succeeds
AllStepsSucceed(env) ==
    /\ env.key = "valid"
    /\ env.client_ok
    /\ env.request_ok
    /\ env.response.choices > 0
    /\ env.response.usage

\* C22: llm_clean_for_tts never raises; it returns the model's rewrite when
\* every step succeeded and the original text when any step failed
C22_NeverRaises ==
    /\ p_pc # "raised"
    /\ p_pc = "returned" =>
          p_ret = IF AllStepsSucceed(p_env) THEN p_env.response.content ELSE text

\* the completion request failed and the original text came back, not the
\* rewrite the response would have carried
C22_Witness ==
    /\ p_pc = "returned"
    /\ p_env.key = "valid"
    /\ p_env.client_ok
    /\ ~p_env.request_ok
    /\ p_exc = "APIError"
    /\ text # <<>>
    /\ p_ret = text
    /\ p_ret # p_env.response.content

----------------------------------------------------------------------------
(* Repeated estimate_tts calls, with other calls in between *)

MaxCalls == 3

\* a short text, and a line long enough for a cost above zero
ShortText == <<"a", SP, "b">>
RepeatTexts == {ShortText, WordsLine(3, MaxWordLen)}

Voices == {"alloy", "nova"}

\* estimate_tts with the pricing table as the module holds it at the call
EstimateTtsWith(table, t, voice, m) ==
    LET report == IF Len(t) <= MaxEstLen
                  THEN EstimateTts(t, voice, m, DefaultMaxChars)
                  ELSE EstimateTtsLine(t, voice, m, DefaultMaxChars)
    IN  [report EXCEPT !.estimated_cost_usd =
             EstimatedCost(report.total_characters, PriceIn(table, m))]

\* a lookup that stores a zero price for a model it does not know
PricingAfterSetDefault(table, m) ==
    [k \in DOMAIN table \cup {m} |-> IF k \in DOMAIN table THEN table[k] ELSE 0]

\* TTS_PRICING after "TTS_PRICING.get(model, ...)": the lookup leaves the
\* table as it is
PricingAfterEstimate(table, m) == table

InitRepeat ==
    /\ text = <<>>
    /\ ChunkIdle
    /\ SynthIdle
    /\ SplitIdle
    /\ DoctorIdle
    /\ PrepIdle
    /\ StoreIdle
    /\ RepeatIdle

\* estimate_tts(t, voice, m)
RepeatEstimateTts ==
    /\ Len(history) < MaxCalls
    /\ \E t \in RepeatTexts, voice \in Voices, m \in Models :
          /\ history' = Append(history,
                               [text |-> t, voice |-> voice, model |-> m,
                                report |-> EstimateTtsWith(pricing, t, voice, m)])
          /\ pricing' = PricingAfterEstimate(pricing, m)
    /\ UNCHANGED <<chunkVars, synthVars, splitVars, doctorVars, prepVars, storeVars>>

\* chunk_text(ShortText, mc, strat)
RepeatChunkText ==
    /\ \E mc \in 1..MaxChars, strat \in Strategies :
          /\ text' = ShortText
          /\ max_chars' = mc
          /\ strategy' = strat
          /\ pc' = "done"
          /\ chunks' = ChunkText(ShortText, mc, strat)
    /\ UNCHANGED <<model, est, cleaned>>
    /\ UNCHANGED <<pricing, history>>
    /\ UNCHANGED <<synthVars, splitVars, doctorVars, prepVars, storeVars>>

NextRepeat == RepeatEstimateTts \/ RepeatChunkText

SpecRepeat == InitRepeat /\ [][NextRepeat]_vars

SameArguments(a, b) == a.text = b.text /\ a.voice = b.voice /\ a.model = b.model

\* C21: two estimate_tts calls with the same text, voice and model return
\* the same report, whatever estimate_tts or chunk_text calls were made in
\* between
C21_SameReport ==
    \A i, j \in 1..Len(history) :
        SameArguments(history[i], history[j]) =>
            history[i].report = history[j].report

\* the same call was made twice with a different estimate_tts call and a
\* chunk_text call in between, on a text whose cost is not zero and a model
\* the pricing table does not list
C21_Witness ==
    /\ Len(history) = 3
    /\ SameArguments(history[1], history[3])
    /\ ~SameArguments(history[1], history[2])
    /\ history[1].model # DefaultModel
    /\ history[1].report.estimated_cost_usd > 0
    /\ history[3].report = history[1].report
    /\ pc = "done"
    /\ Len(chunks) > 1

====
